---- MODULE Spec2Model ----
(***************************************************************************)
(* MXFunctionInternal (casadi/fx/mx_function_internal.cpp): construction   *)
(* from input/output expressions, init() building the evaluation tape,     *)
(* evaluate() running the forward and adjoint sweeps over the tape, the    *)
(* lifting callback and the symbolic forward differentiator adFwd().       *)
(*                                                                         *)
(* Conventions.  Indices stored in the state (temp, ch, inputv_ind,        *)
(* outputv_ind, view slots, direction numbers, error argument numbers) are *)
(* the 0-based C++ values; a TLA+ sequence holding a C++ vector v keeps    *)
(* v[i] at position i+1.  A null MX is the node id 0.                      *)
(***************************************************************************)
EXTENDS Integers, Sequences, FiniteSets, TLC

\* ------------------------------------------------------------------ bounds
MaxNodes == 3      \* nodes in a generated expression graph
MaxRoots == 2      \* declared inputs / declared outputs per function
MaxDir   == 1      \* largest number_of_fwd_dir / number_of_adj_dir option
MaxVal   == 2      \* largest input value given to evaluate()
MaxMulVal == 4     \* largest input value given to the product function
MaxEvals == 1      \* evaluate() calls per behaviour of the general specification
MaxSweeps == 2     \* evaluate() calls per behaviour of the sweep specifications
MaxSeeds == 3      \* seed matrices handed to adFwd()
MaxCols  == 2      \* columns of a seed matrix

VARIABLES
  graph,   \* the expression nodes: graph[n] = [op, dep, nz, val], n in 1..Len(graph)
  temp,    \* MXNode::temp of every node (the transient order field)
  fn,      \* the MXFunctionInternal instance (exists = FALSE: none constructed)
  ret,     \* outcome of the last call made on an instance
  nevals,  \* evaluate() calls made so far
  cl       \* the instance returned by fn's clone() (exists = FALSE: none yet)

vars == <<graph, temp, fn, ret, nevals, cl>>

\* ------------------------------------------------------------- helpers
Null == 0

Zeros(n) == [k \in 1..n |-> 0]

SetMin(S) == CHOOSE x \in S : \A y \in S : x <= y

SetMax(S) == CHOOSE x \in S : \A y \in S : x >= y

\* std::vector::resize(n, fill): the first n old elements are kept, new ones are fill
Resize(v, n, fill) == [k \in 1..n |-> IF k <= Len(v) THEN v[k] ELSE fill]

SeqsUpTo(S, n) == UNION { [1..k -> S] : k \in 0..n }

\* ------------------------------------------------------ expression nodes
\* MXNode queries used by this file.  op is one of
\*   "sym"   symbolic leaf          "const" constant (value val)
\*   "sq"    unary  x*x             "add"   binary, linear
\*   "mul"   binary, nonlinear
ndep(n) == Len(graph[n].dep)

dep(n, i) == graph[n].dep[i + 1]

isSymbolic(n) == graph[n].op = "sym"

isConstant(n) == graph[n].op = "const"

isNonLinear(n) == graph[n].op \in {"sq", "mul"}

numel(n) == graph[n].nz

\* ------------------------------------------------- generated graph family
\* Every graph of exactly MaxNodes nodes in which each dependency is null or a
\* node created earlier (acyclic by construction, sharing allowed).
MX(op, deps, nz, val) == [op |-> op, dep |-> deps, nz |-> nz, val |-> val]

NodeChoices(g) ==
  LET prev == 0..Len(g) IN
       { MX("sym", <<>>, 1, 0), MX("const", <<>>, 1, 2) }
  \cup { MX("sq", <<d>>, 1, 0) : d \in prev }
  \cup { MX("mul", <<d, e>>, 1, 0) : d \in prev, e \in prev }

RECURSIVE GraphsOf(_)
GraphsOf(k) ==
  IF k = 0 THEN { <<>> }
  ELSE UNION { { Append(g, n) : n \in NodeChoices(g) } : g \in GraphsOf(k - 1) }

AllGraphs == GraphsOf(MaxNodes)

\* ------------------------------------------------------------ instance
NoFn ==
  [exists |-> FALSE, inputv |-> <<>>, outputv |-> <<>>, input_ |-> <<>>,
   output_ |-> <<>>, opt |-> [nfdir |-> 0, nadir |-> 0], is_init |-> FALSE,
   nfdir_ |-> 0, nadir_ |-> 0, inputv_ind |-> <<>>, outputv_ind |-> <<>>,
   alg |-> <<>>, liftfun_ |-> 0, liftfun_ud_ |-> 0]

\* The record of a call: what was called, how it ended, the error's argument
\* number, the input list given to the constructor, the instance's is_init,
\* nfdir_ and nadir_ as they were when the call started and, for
\* evaluate(nf, na): the direction counts
\* asked for, the number of entries run by the forward and by the adjoint
\* sweep, the callback invocations <<slot, size, user data, values handed
\* over>> in order, and
\* whether the call changed a tape buffer or an output port; for adFwd(fseed):
\* the seed list, the returned expressions, the memo as the call left it and
\* whether the call made an undefined access.
NoRet ==
  [call |-> "none", status |-> "none", arg |-> -1, inputv |-> <<>>,
   was_init |-> FALSE, old_nfdir |-> 0, old_nadir |-> 0, nf |-> 0, na |-> 0, nfwd |-> 0, nadj |-> 0,
   lifted |-> <<>>, modified |-> FALSE,
   fseed |-> <<>>, sens |-> <<>>, derwork |-> <<>>, undefined |-> FALSE]

Ret(call, status, F) ==
  [NoRet EXCEPT !.call = call, !.status = status, !.was_init = F.is_init,
                !.old_nfdir = F.nfdir_, !.old_nadir = F.nadir_]

\* FunctionIO: a value with its forward and adjoint directions
FunctionIO(nz, nf, na) ==
  [data |-> Zeros(nz), dataF |-> [d \in 1..nf |-> Zeros(nz)],
   dataA |-> [d \in 1..na |-> Zeros(nz)]]

\* A view: the address of element 0 of a tape buffer.  kind is "data", "F" or
\* "A"; gen is the bufgen of the owning entry at the time the address was taken.
View(slot, kind, dir, gen) == [slot |-> slot, kind |-> kind, dir |-> dir, gen |-> gen]

NullPtr == View(-1, "null", 0, 0)

\* A default-constructed AlgEl.  bufgen = 1 iff the entry's buffers were
\* allocated by the most recent init() pass.
NewAlgEl ==
  [mx |-> Null, data |-> <<>>, dataF |-> <<>>, dataA |-> <<>>, bufgen |-> 0,
   ch |-> <<>>, input |-> <<>>, fwdSeed |-> <<>>, adjSens |-> <<>>,
   output |-> NullPtr, fwdSens |-> <<>>, adjSeed |-> <<>>]

\* ---------------------------------------------------------- constructor
\* A validation that looks for null arguments in a loop of its own, before the
\* symbolic check.
CtorScanNullFirst(iv, i) ==
  LET nulls  == { k \in i..(Len(iv) - 1) : iv[k + 1] = Null }
      nonsym == { k \in i..(Len(iv) - 1) : iv[k + 1] # Null /\ ~isSymbolic(iv[k + 1]) }
  IN  IF nulls # {} THEN [status |-> "null", arg |-> SetMin(nulls)]
      ELSE IF nonsym # {} THEN [status |-> "not_symbolic", arg |-> SetMin(nonsym)]
      ELSE [status |-> "ok", arg |-> -1]

\* The validation loop: the first offending argument throws.
RECURSIVE CtorScan(_, _)
CtorScan(iv, i) ==
  IF i >= Len(iv) THEN [status |-> "ok", arg |-> -1]
  ELSE IF iv[i + 1] = Null THEN [status |-> "null", arg |-> i]
  ELSE IF ~isSymbolic(iv[i + 1]) THEN [status |-> "not_symbolic", arg |-> i]
  ELSE CtorScan(iv, i + 1)

\* MXFunctionInternal::MXFunctionInternal(inputv_, outputv_) after a passed scan
MXFunctionInternal(iv, ov, o) ==
  [NoFn EXCEPT
     !.exists  = TRUE,
     !.inputv  = iv,
     !.outputv = ov,
     !.opt     = o,
     !.input_  = [i \in 1..Len(iv) |-> FunctionIO(numel(iv[i]), 0, 0)],
     !.output_ = [i \in 1..Len(ov) |-> FunctionIO(numel(ov[i]), 0, 0)]]

\* ------------------------------------------------------------------ init
\* XFunctionInternal::init(): marks the instance initialized, reads the
\* direction counts from the options and sizes the ports' direction buffers.
XFunctionInternal_init(F) ==
  [F EXCEPT
     !.is_init = TRUE,
     !.nfdir_  = F.opt.nfdir,
     !.nadir_  = F.opt.nadir,
     !.input_  = [i \in 1..Len(F.input_) |->
                    FunctionIO(Len(F.input_[i].data), F.opt.nfdir, F.opt.nadir)],
     !.output_ = [i \in 1..Len(F.output_) |->
                    FunctionIO(Len(F.output_[i].data), F.opt.nfdir, F.opt.nadir)]]

\* A root stack that forgets the declared inputs.
RootStackOutputsOnly(F) == SelectSeq(F.outputv, LAMBDA n : n # Null)

\* The stack of roots: inputs first, then outputs, nulls skipped (top = last)
RootStack(F) ==
  SelectSeq(F.inputv, LAMBDA n : n # Null) \o SelectSeq(F.outputv, LAMBDA n : n # Null)

\* Depth-first topological sort with an explicit stack; a node's temp field is
\* the visited marker while the sort runs and is neutral again when it returns.
RECURSIVE sort_loop(_, _, _)
sort_loop(s, nodes, mark) ==
  IF s = <<>> THEN nodes
  ELSE
    LET t    == s[Len(s)]
        pend == { i \in 0..(ndep(t) - 1) : dep(t, i) # Null /\ mark[dep(t, i)] = 0 }
    IN  IF mark[t] # 0 THEN sort_loop(SubSeq(s, 1, Len(s) - 1), nodes, mark)
        ELSE IF pend # {} THEN sort_loop(Append(s, dep(t, SetMin(pend))), nodes, mark)
        ELSE sort_loop(SubSeq(s, 1, Len(s) - 1), Append(nodes, t),
                       [mark EXCEPT ![t] = 1])

sort_depth_first(s, tmp) == sort_loop(s, <<>>, tmp)

\* nodes[i]->temp = i
SetTemp(nodes, tmp) ==
  [n \in DOMAIN tmp |->
     IF \E i \in 1..Len(nodes) : nodes[i] = n
       THEN (CHOOSE i \in 1..Len(nodes) : nodes[i] = n) - 1
       ELSE tmp[n]]

\* A variant that leaves the positions in the nodes
ResetTempNone(nodes, tmp) == tmp

\* nodes[i]->temp = 0
ResetTemp(nodes, tmp) ==
  [n \in DOMAIN tmp |-> IF \E i \in 1..Len(nodes) : nodes[i] = n THEN 0 ELSE tmp[n]]

\* inputv_ind[i] = inputv[i]->temp, outputv_ind[i] = outputv[i]->temp
RootInd(rootv, tmp) == [i \in 1..Len(rootv) |-> tmp[rootv[i]]]

\* Child indices counted from 1 instead of 0.
ChildIndFromOne(n, tmp) ==
  [i \in 1..ndep(n) |-> IF dep(n, i - 1) = Null THEN -1 ELSE tmp[dep(n, i - 1)] + 1]

\* it->ch[i] = dep(i).isNull() ? -1 : dep(i)->temp
ChildInd(n, tmp) ==
  [i \in 1..ndep(n) |-> IF dep(n, i - 1) = Null THEN -1 ELSE tmp[dep(n, i - 1)]]

\* The address &alg[slot].val.<kind>[dir][0] as it is when taken
AddrOf(alg, slot, kind, dir) ==
  IF slot < 0 \/ slot >= Len(alg) THEN View(slot, kind, dir, 0)
  ELSE View(slot, kind, dir, alg[slot + 1].bufgen)

\* The buffers and indices of entry ii: lines 118-131
AlgElBuffers(old, n, tmp, nf, na) ==
  [old EXCEPT
     !.mx     = n,
     !.data   = Zeros(numel(n)),
     !.dataF  = [d \in 1..nf |-> Zeros(numel(n))],
     !.dataA  = [d \in 1..na |-> Zeros(numel(n))],
     !.bufgen = 1,
     !.ch     = ChildInd(n, tmp)]

\* The dependency views of entry ii: lines 133-146
AlgElDepViews(alg, el, nf, na) ==
  LET nd  == Len(el.ch)
      in0 == Resize(el.input, nd, NullPtr)
      fs0 == Resize(el.fwdSeed, nd, <<>>)
      as0 == Resize(el.adjSens, nd, <<>>)
  IN  [el EXCEPT
         !.input   = [i \in 1..nd |->
                        IF el.ch[i] >= 0 THEN AddrOf(alg, el.ch[i], "data", 0)
                        ELSE in0[i]],
         !.fwdSeed = [i \in 1..nd |->
                        IF el.ch[i] >= 0
                          THEN [d \in 1..nf |-> AddrOf(alg, el.ch[i], "F", d - 1)]
                          ELSE Resize(fs0[i], nf, NullPtr)],
         !.adjSens = [i \in 1..nd |->
                        IF el.ch[i] >= 0
                          THEN [d \in 1..na |-> AddrOf(alg, el.ch[i], "A", d - 1)]
                          ELSE Resize(as0[i], na, NullPtr)]]

\* A variant that takes the entry's own views only when it has none yet
AlgElOwnViewsOnce(alg, ii, el, nf, na) ==
  IF el.output # NullPtr THEN el
  ELSE [el EXCEPT
          !.output  = AddrOf(alg, ii, "data", 0),
          !.fwdSens = [d \in 1..nf |-> AddrOf(alg, ii, "F", d - 1)],
          !.adjSeed = [d \in 1..na |-> AddrOf(alg, ii, "A", d - 1)]]

\* The entry's own views: lines 148-154
AlgElOwnViews(alg, ii, el, nf, na) ==
  [el EXCEPT
     !.output  = AddrOf(alg, ii, "data", 0),
     !.fwdSens = [d \in 1..nf |-> AddrOf(alg, ii, "F", d - 1)],
     !.adjSeed = [d \in 1..na |-> AddrOf(alg, ii, "A", d - 1)]]

\* A variant of one loop iteration that takes the views before it allocates
\* the entry's buffers
BuildElViewsFirst(alg, nodes, tmp, ii, nf, na) ==
  LET e0 == [alg[ii + 1] EXCEPT !.ch = ChildInd(nodes[ii + 1], tmp)]
      e1 == AlgElOwnViews(alg, ii, AlgElDepViews(alg, e0, nf, na), nf, na)
  IN  [alg EXCEPT ![ii + 1] = AlgElBuffers(e1, nodes[ii + 1], tmp, nf, na)]

\* One iteration of the loop over alg (ii is 0-based)
BuildEl(alg, nodes, tmp, ii, nf, na) ==
  LET a1 == [alg EXCEPT ![ii + 1] = AlgElBuffers(alg[ii + 1], nodes[ii + 1], tmp, nf, na)]
      a2 == [a1 EXCEPT ![ii + 1] = AlgElDepViews(a1, a1[ii + 1], nf, na)]
  IN  [a2 EXCEPT ![ii + 1] = AlgElOwnViews(a2, ii, a2[ii + 1], nf, na)]

RECURSIVE BuildAlg(_, _, _, _, _, _)
BuildAlg(alg, nodes, tmp, ii, nf, na) ==
  IF ii >= Len(alg) THEN alg
  ELSE BuildAlg(BuildEl(alg, nodes, tmp, ii, nf, na), nodes, tmp, ii + 1, nf, na)

\* What the previous tape's storage is to a new init() pass: every buffer it
\* holds and every address taken from it belongs to an earlier pass.
AgeView(v) == [v EXCEPT !.gen = 0]

AgeEl(el) ==
  [el EXCEPT
     !.bufgen  = 0,
     !.input   = [i \in DOMAIN el.input |-> AgeView(el.input[i])],
     !.fwdSeed = [i \in DOMAIN el.fwdSeed |->
                    [d \in DOMAIN el.fwdSeed[i] |-> AgeView(el.fwdSeed[i][d])]],
     !.adjSens = [i \in DOMAIN el.adjSens |->
                    [d \in DOMAIN el.adjSens[i] |-> AgeView(el.adjSens[i][d])]],
     !.output  = AgeView(el.output),
     !.fwdSens = [d \in DOMAIN el.fwdSens |-> AgeView(el.fwdSens[d])],
     !.adjSeed = [d \in DOMAIN el.adjSeed |-> AgeView(el.adjSeed[d])]]

\* alg.resize(nodes.size())
ResizeAlg(alg, n) == Resize([i \in DOMAIN alg |-> AgeEl(alg[i])], n, NewAlgEl)

\* MXFunctionInternal::init(): the new instance and the nodes' temp fields
init(F, tmp) ==
  LET F1    == XFunctionInternal_init(F)
      nodes == sort_depth_first(RootStack(F1), tmp)
      tmp1  == SetTemp(nodes, tmp)
      a0    == ResizeAlg(F1.alg, Len(nodes))
  IN  [fn   |-> [F1 EXCEPT
                   !.inputv_ind  = RootInd(F1.inputv, tmp1),
                   !.outputv_ind = RootInd(F1.outputv, tmp1),
                   !.alg         = BuildAlg(a0, nodes, tmp1, 0, F1.nfdir_, F1.nadir_)],
       temp |-> ResetTemp(nodes, tmp1)]

\* ------------------------------------------------------------------ clone
\* A variant that copies the source's tape: the buffers are copied, the views
\* are the source's and address nothing the copy owns
cloneCopy(F, tmp) ==
  [fn   |-> [F EXCEPT !.liftfun_ = 0, !.liftfun_ud_ = 0,
                      !.alg = [i \in DOMAIN @ |-> [AgeEl(@[i]) EXCEPT !.bufgen = 1]]],
   temp |-> tmp]

\* A variant that also hands the source's callback to the new instance
cloneWithCallback(F, tmp) ==
  LET node == [MXFunctionInternal(F.inputv, F.outputv, F.opt) EXCEPT
                 !.liftfun_ = F.liftfun_, !.liftfun_ud_ = F.liftfun_ud_]
  IN  IF F.is_init THEN init(node, tmp) ELSE [fn |-> node, temp |-> tmp]

\* MXFunctionInternal::clone(): the new instance and the nodes' temp fields
clone(F, tmp) ==
  LET node == MXFunctionInternal(F.inputv, F.outputv, F.opt)
  IN  IF F.is_init THEN init(node, tmp) ELSE [fn |-> node, temp |-> tmp]

\* ------------------------------------------------------------- evaluate
Range0(n) == [k \in 1..n |-> k - 1]

\* The <<outer, inner>> index pairs of two nested loops, in execution order
Pairs(no, ni) == [k \in 1..(no * ni) |-> <<(k - 1) \div ni, (k - 1) % ni>>]

Reverse(s) == [k \in 1..Len(s) |-> s[Len(s) + 1 - k]]

RECURSIVE FoldSeq(_, _, _)
FoldSeq(Op(_, _), acc, s) ==
  IF s = <<>> THEN acc ELSE FoldSeq(Op, Op(acc, Head(s)), Tail(s))

InRange(v, i) == 0 <= i /\ i < Len(v)

\* A view is live when it addresses a buffer the tape currently owns
Live(alg, v) ==
  /\ InRange(alg, v.slot)
  /\ v.gen = 1
  /\ alg[v.slot + 1].bufgen = 1
  /\ \/ v.kind = "data"
     \/ v.kind = "F" /\ InRange(alg[v.slot + 1].dataF, v.dir)
     \/ v.kind = "A" /\ InRange(alg[v.slot + 1].dataA, v.dir)

Load(alg, v) ==
  CASE v.kind = "data" -> alg[v.slot + 1].data
    [] v.kind = "F"    -> alg[v.slot + 1].dataF[v.dir + 1]
    [] v.kind = "A"    -> alg[v.slot + 1].dataA[v.dir + 1]

Store(alg, v, x) ==
  CASE v.kind = "data" -> [alg EXCEPT ![v.slot + 1].data = x]
    [] v.kind = "F"    -> [alg EXCEPT ![v.slot + 1].dataF[v.dir + 1] = x]
    [] v.kind = "A"    -> [alg EXCEPT ![v.slot + 1].dataA[v.dir + 1] = x]

\* Every view the rule of entry el goes through with nfwd forward and nadj
\* adjoint directions exists and is live
ViewsLive(alg, el, nfwd, nadj) ==
  /\ nfwd <= Len(el.fwdSens) /\ nadj <= Len(el.adjSeed)
  /\ Live(alg, el.output)
  /\ \A d \in 1..nfwd : Live(alg, el.fwdSens[d])
  /\ \A d \in 1..nadj : Live(alg, el.adjSeed[d])
  /\ \A i \in DOMAIN el.input :
       el.input[i] # NullPtr =>
         /\ Live(alg, el.input[i])
         /\ nfwd <= Len(el.fwdSeed[i]) /\ nadj <= Len(el.adjSens[i])
         /\ \A d \in 1..nfwd : Live(alg, el.fwdSeed[i][d])
         /\ \A d \in 1..nadj : Live(alg, el.adjSens[i][d])

\* The operation-specific rules of the node classes (x: the operands' values,
\* dx: their tangents; an absent operand counts as zero)
Primal(op, val, x, nz) ==
  CASE op = "const" -> [k \in 1..nz |-> val]
    [] op = "sq"    -> [k \in 1..nz |-> x[1][k] * x[1][k]]
    [] op = "add"   -> [k \in 1..nz |-> x[1][k] + x[2][k]]
    [] op = "mul"   -> [k \in 1..nz |-> x[1][k] * x[2][k]]

TangentRule(op, x, dx, nz) ==
  CASE op = "const" -> Zeros(nz)
    [] op = "sq"    -> [k \in 1..nz |-> 2 * x[1][k] * dx[1][k]]
    [] op = "add"   -> [k \in 1..nz |-> dx[1][k] + dx[2][k]]
    [] op = "mul"   -> [k \in 1..nz |-> x[2][k] * dx[1][k] + x[1][k] * dx[2][k]]

\* d(output)/d(operand i), i counted from 1
Partial(op, x, i, nz) ==
  CASE op = "sq"  -> [k \in 1..nz |-> 2 * x[1][k]]
    [] op = "add" -> [k \in 1..nz |-> 1]
    [] op = "mul" -> [k \in 1..nz |-> x[3 - i][k]]

Operands(alg, el) ==
  [i \in DOMAIN el.input |->
     IF el.input[i] = NullPtr THEN Zeros(Len(el.data)) ELSE Load(alg, el.input[i])]

Tangents(alg, el, d) ==
  [i \in DOMAIN el.input |->
     IF el.input[i] = NullPtr THEN Zeros(Len(el.data)) ELSE Load(alg, el.fwdSeed[i][d])]

\* it->mx->evaluate(input, output, fwdSeed, fwdSens, adjSeed, adjSens, nfwd, 0):
\* writes the primal output and nfwd tangents through the entry's own views
MXNode_evaluate_fwd(alg, ii, nfwd) ==
  LET el == alg[ii + 1]
      op == graph[el.mx].op
      nz == numel(el.mx)
      x  == Operands(alg, el)
      a1 == Store(alg, el.output, Primal(op, graph[el.mx].val, x, nz))
      OneDir(a, d) == Store(a, el.fwdSens[d], TangentRule(op, x, Tangents(a, el, d), nz))
  IN  IF op = "sym" THEN alg ELSE FoldSeq(OneDir, a1, [d \in 1..nfwd |-> d])

\* it->mx->evaluate(.., 0, nadj): adds, for every direction and every present
\* operand, the entry's sensitivity times the partial derivative to the
\* operand's sensitivity buffer
MXNode_evaluate_adj(alg, ii, nadj) ==
  LET el == alg[ii + 1]
      op == graph[el.mx].op
      nz == numel(el.mx)
      x  == Operands(alg, el)
      OneTerm(a, di) ==
        LET d == di[1] + 1
            i == di[2] + 1
            v == el.adjSens[i][d]
            p == Partial(op, x, i, nz)
            s == Load(a, el.adjSeed[d])
        IN  IF el.input[i] = NullPtr THEN a
            ELSE Store(a, v, [k \in 1..nz |-> Load(a, v)[k] + p[k] * s[k]])
  IN  FoldSeq(OneTerm, alg, Pairs(nadj, Len(el.input)))

\* The caller's lifting callbacks: 1 only reads the n values at v, 2 overwrites
\* them with its user data
LiftingFunction(id, v, n, ud) == IF id = 2 THEN [k \in 1..n |-> ud] ELSE v

\* The state of a running evaluate(): the instance, "run" or how the call
\* ended, the entries run by each sweep and the callback invocations
Running(F) == [fn |-> F, status |-> "run", nfwd |-> 0, nadj |-> 0, lifted |-> <<>>]

Stop(m, how) == [m EXCEPT !.status = how]

\* alg[inputv_ind[ind]].val.data.set(input(ind))
PassInput(m, ind) ==
  IF m.status # "run" THEN m
  ELSE IF ~InRange(m.fn.inputv_ind, ind)
            \/ ~InRange(m.fn.alg, m.fn.inputv_ind[ind + 1]) THEN Stop(m, "ub")
  ELSE [m EXCEPT !.fn.alg[m.fn.inputv_ind[ind + 1] + 1].data = m.fn.input_[ind + 1].data]

\* A variant that leaves the tangent seeds out of the tape
PassFwdSeedNone(m, p) == m

\* alg[inputv_ind[ind]].val.dataF.at(dir).set(fwdSeed(ind,dir))
PassFwdSeed(m, p) ==
  LET dir == p[1]
      ind == p[2]
  IN  IF m.status # "run" THEN m
      ELSE IF ~InRange(m.fn.inputv_ind, ind)
                \/ ~InRange(m.fn.alg, m.fn.inputv_ind[ind + 1]) THEN Stop(m, "ub")
      ELSE IF ~InRange(m.fn.alg[m.fn.inputv_ind[ind + 1] + 1].dataF, dir)
        THEN Stop(m, "out_of_range")
      ELSE [m EXCEPT !.fn.alg[m.fn.inputv_ind[ind + 1] + 1].dataF[dir + 1] =
                        m.fn.input_[ind + 1].dataF[dir + 1]]

\* The lifting step of the forward loop
Lift(m, ii) ==
  LET el == m.fn.alg[ii + 1]
      n  == numel(el.mx)
  IN  IF m.fn.liftfun_ # 0 /\ isNonLinear(el.mx)
        THEN [m EXCEPT
                !.fn.alg = Store(@, el.output,
                                 LiftingFunction(m.fn.liftfun_, Load(@, el.output), n,
                                                 m.fn.liftfun_ud_)),
                !.lifted = Append(@, <<ii, n, m.fn.liftfun_ud_, Load(m.fn.alg, el.output)>>)]
        ELSE m

\* A variant of the loop body that keeps the value of an entry that has one
ForwardEntryMemo(m, ii, nfdir) ==
  LET el == m.fn.alg[ii + 1] IN
    IF m.status # "run" THEN m
    ELSE IF ~isSymbolic(el.mx) /\ ~ViewsLive(m.fn.alg, el, nfdir, 0) THEN Stop(m, "ub")
    ELSE IF el.data # Zeros(Len(el.data)) THEN Lift([m EXCEPT !.nfwd = @ + 1], ii)
    ELSE Lift([m EXCEPT !.fn.alg = MXNode_evaluate_fwd(@, ii, nfdir), !.nfwd = @ + 1], ii)

\* A variant of the loop body that calls the hook before it evaluates the entry
ForwardEntryLiftFirst(m, ii, nfdir) ==
  LET el == m.fn.alg[ii + 1]
      m1 == Lift(m, ii) IN
    IF m.status # "run" THEN m
    ELSE IF ~isSymbolic(el.mx) /\ ~ViewsLive(m.fn.alg, el, nfdir, 0) THEN Stop(m, "ub")
    ELSE [m1 EXCEPT !.fn.alg = MXNode_evaluate_fwd(@, ii, nfdir), !.nfwd = @ + 1]

\* One iteration of the forward loop over alg
ForwardEntry(m, ii, nfdir) ==
  LET el == m.fn.alg[ii + 1] IN
    IF m.status # "run" THEN m
    ELSE IF ~isSymbolic(el.mx) /\ ~ViewsLive(m.fn.alg, el, nfdir, 0) THEN Stop(m, "ub")
    ELSE Lift([m EXCEPT !.fn.alg = MXNode_evaluate_fwd(@, ii, nfdir), !.nfwd = @ + 1], ii)

\* alg[outputv_ind[ind]].val.data.get(output(ind))
GetOutput(m, ind) ==
  IF m.status # "run" THEN m
  ELSE IF ~InRange(m.fn.outputv_ind, ind)
            \/ ~InRange(m.fn.alg, m.fn.outputv_ind[ind + 1]) THEN Stop(m, "ub")
  ELSE [m EXCEPT !.fn.output_[ind + 1].data = m.fn.alg[m.fn.outputv_ind[ind + 1] + 1].data]

\* alg[outputv_ind[ind]].val.dataF.at(dir).get(fwdSens(ind,dir))
GetFwdSens(m, p) ==
  LET dir == p[1]
      ind == p[2]
  IN  IF m.status # "run" THEN m
      ELSE IF ~InRange(m.fn.outputv_ind, ind)
                \/ ~InRange(m.fn.alg, m.fn.outputv_ind[ind + 1]) THEN Stop(m, "ub")
      ELSE IF ~InRange(m.fn.alg[m.fn.outputv_ind[ind + 1] + 1].dataF, dir)
        THEN Stop(m, "out_of_range")
      ELSE [m EXCEPT !.fn.output_[ind + 1].dataF[dir + 1] =
                        m.fn.alg[m.fn.outputv_ind[ind + 1] + 1].dataF[dir + 1]]

\* A variant that does not zero the sensitivity buffers
ClearAdjSeedNone(m, p) == m

\* fill(it->val.dataA.at(dir).begin(), it->val.dataA.at(dir).end(), 0.0)
ClearAdjSeed(m, p) ==
  LET ii  == p[1]
      dir == p[2]
  IN  IF m.status # "run" THEN m
      ELSE IF ~InRange(m.fn.alg[ii + 1].dataA, dir) THEN Stop(m, "out_of_range")
      ELSE [m EXCEPT !.fn.alg[ii + 1].dataA[dir + 1] = Zeros(Len(@))]

\* alg[outputv_ind[ind]].val.dataA.at(dir).set(adjSeed(ind,dir))
PassAdjSeed(m, p) ==
  LET ind == p[1]
      dir == p[2]
  IN  IF m.status # "run" THEN m
      ELSE IF ~InRange(m.fn.outputv_ind, ind)
                \/ ~InRange(m.fn.alg, m.fn.outputv_ind[ind + 1]) THEN Stop(m, "ub")
      ELSE IF ~InRange(m.fn.alg[m.fn.outputv_ind[ind + 1] + 1].dataA, dir)
        THEN Stop(m, "out_of_range")
      ELSE [m EXCEPT !.fn.alg[m.fn.outputv_ind[ind + 1] + 1].dataA[dir + 1] =
                        m.fn.output_[ind + 1].dataA[dir + 1]]

\* One iteration of the reverse loop over alg
AdjointEntry(m, ii, nadir) ==
  LET el == m.fn.alg[ii + 1] IN
    IF m.status # "run" THEN m
    ELSE IF ~isSymbolic(el.mx) /\ ~ViewsLive(m.fn.alg, el, 0, nadir) THEN Stop(m, "ub")
    ELSE [m EXCEPT !.fn.alg = MXNode_evaluate_adj(@, ii, nadir), !.nadj = @ + 1]

\* alg[inputv_ind[ind]].val.dataA.at(dir).get(adjSens(ind,dir))
GetAdjSens(m, p) ==
  LET ind == p[1]
      dir == p[2]
  IN  IF m.status # "run" THEN m
      ELSE IF ~InRange(m.fn.inputv_ind, ind)
                \/ ~InRange(m.fn.alg, m.fn.inputv_ind[ind + 1]) THEN Stop(m, "ub")
      ELSE IF ~InRange(m.fn.alg[m.fn.inputv_ind[ind + 1] + 1].dataA, dir)
        THEN Stop(m, "out_of_range")
      ELSE [m EXCEPT !.fn.input_[ind + 1].dataA[dir + 1] =
                        m.fn.alg[m.fn.inputv_ind[ind + 1] + 1].dataA[dir + 1]]

\* "Pass the inputs" and "Pass the forward seeds": lines 175-182
PassInputsAndFwdSeeds(m, nfdir) ==
  LET nin == Len(m.fn.input_)
      m1  == FoldSeq(PassInput, m, Range0(nin))
  IN  FoldSeq(PassFwdSeed, m1, Pairs(nfdir, nin))

\* "Clear the adjoint seeds" and "Pass the adjoint seeds": lines 206-214
ClearAndPassAdjSeeds(m, nadir) ==
  LET nout == Len(m.fn.outputv)
      m1   == FoldSeq(ClearAdjSeed, m, Pairs(Len(m.fn.alg), nadir))
  IN  FoldSeq(PassAdjSeed, m1, Pairs(nout, nadir))

\* The forward part of evaluate(): lines 175-202
ForwardPass(m, nfdir) ==
  LET nout == Len(m.fn.outputv)
      Fwd(mm, ii) == ForwardEntry(mm, ii, nfdir)
      m2   == PassInputsAndFwdSeeds(m, nfdir)
      m3   == FoldSeq(Fwd, m2, Range0(Len(m.fn.alg)))
      m4   == FoldSeq(GetOutput, m3, Range0(nout))
  IN  FoldSeq(GetFwdSens, m4, Pairs(nfdir, nout))

\* The adjoint part of evaluate(): lines 204-227
AdjointPass(m, nadir) ==
  LET nin  == Len(m.fn.input_)
      n    == Len(m.fn.alg)
      Adj(mm, ii) == AdjointEntry(mm, ii, nadir)
      m2   == ClearAndPassAdjSeeds(m, nadir)
      m3   == FoldSeq(Adj, m2, Reverse(Range0(n)))
  IN  FoldSeq(GetAdjSens, m3, Pairs(nin, nadir))

\* MXFunctionInternal::evaluate(nfdir, nadir)
evaluate(F, nfdir, nadir) ==
  LET m1 == ForwardPass(Running(F), nfdir)
      m2 == IF nadir > 0 THEN AdjointPass(m1, nadir) ELSE m1
  IN  IF m2.status = "run" THEN Stop(m2, "ok") ELSE m2

\* MXFunctionInternal::setLiftingFunction(liftfun, user_data)
setLiftingFunction(F, liftfun, user_data) ==
  [F EXCEPT !.liftfun_ = liftfun, !.liftfun_ud_ = user_data]

\* ------------------------------------------------------------------- adFwd
\* Matrix expressions handed to and built by adFwd(): a caller's seed matrix, a
\* zero matrix, the expression a node's differentiation rule builds from the
\* seeds of its dependencies, and the null MX
MXExpr(kind, n, rows, cols, args) ==
  [kind |-> kind, n |-> n, rows |-> rows, cols |-> cols, args |-> args]

NullMX == MXExpr("null", 0, 0, 0, <<>>)

SeedMX(tag, rows, cols) == MXExpr("seed", tag, rows, cols, <<>>)

\* MX::zeros(nrow, ncol)
MX_zeros(nrow, ncol) == MXExpr("zeros", 0, nrow, ncol, <<>>)

\* alg[el].mx->adFwd(seed)
MXNode_adFwd(n, ncol, seed) == MXExpr("adFwd", n, numel(n), ncol, seed)

\* An undefined read either ends the process or yields some matrix
Crash == MXExpr("crash", 0, 0, 0, <<>>)

\* MX::eye(n)
MX_eye(n) == MXExpr("eye", 0, n, n, <<>>)

\* MX::size1() of a node: the nodes are column vectors
size1(n) == numel(n)

\* The state of a running adFwd(): the instance, "run" or how the call ended,
\* the memo, the result list and whether an undefined access was made
AdRunning ==
  [fn |-> NoFn, status |-> "run", derwork |-> <<>>, sens |-> <<>>, undefined |-> FALSE]

\* derwork[inputv_ind[ind]] = fseed[ind]
AdPassSeed(F, fseed, junk, a, ind) ==
  IF a.status # "run" THEN a
  ELSE IF InRange(fseed, ind)
    THEN [a EXCEPT !.derwork[F.inputv_ind[ind + 1] + 1] = fseed[ind + 1]]
  ELSE IF junk = Crash THEN [a EXCEPT !.status = "ub", !.undefined = TRUE]
  ELSE [a EXCEPT !.derwork[F.inputv_ind[ind + 1] + 1] = junk, !.undefined = TRUE]

\* A variant of the loop body that gives up the entry's dependency indices once
\* its derivative is in the memo
AdEntryRelease(F, ncol, a, el) ==
  LET e    == F.alg[el + 1]
      seed == [i \in DOMAIN e.ch |->
                 IF e.ch[i] >= 0 THEN a.derwork[e.ch[i] + 1] ELSE NullMX]
  IN  IF a.status # "run" \/ a.derwork[el + 1] # NullMX \/ seed = <<>> THEN a
      ELSE [a EXCEPT !.derwork[el + 1] = MXNode_adFwd(e.mx, ncol, seed),
                     !.fn.alg[el + 1].ch = <<>>]

\* One iteration of the loop over derwork
AdEntry(F, ncol, a, el) ==
  LET e    == F.alg[el + 1]
      seed == [i \in DOMAIN e.ch |->
                 IF e.ch[i] >= 0 THEN a.derwork[e.ch[i] + 1] ELSE NullMX]
  IN  IF a.status # "run" \/ a.derwork[el + 1] # NullMX THEN a
      ELSE IF isConstant(e.mx)
        THEN [a EXCEPT !.derwork[el + 1] = MX_zeros(numel(e.mx), ncol)]
      ELSE IF seed = <<>> THEN [a EXCEPT !.status = "assert"]
      ELSE [a EXCEPT !.derwork[el + 1] = MXNode_adFwd(e.mx, ncol, seed)]

\* ret[ind] = derwork[outputv_ind[ind]]
AdCollect(F, a) ==
  IF a.status # "run" THEN a
  ELSE [a EXCEPT !.status = "ok",
                 !.sens = [ind \in DOMAIN F.outputv |-> a.derwork[F.outputv_ind[ind] + 1]]]

\* MXFunctionInternal::adFwd(fseed); junk is what an undefined read produces
adFwd(F, fseed, junk) ==
  LET front == IF fseed = <<>> THEN junk ELSE fseed[1]
      ncol  == front.cols
      a0    == [AdRunning EXCEPT !.fn = F, !.undefined = (fseed = <<>>)]
      a1    == [a0 EXCEPT !.derwork = [i \in DOMAIN F.alg |-> NullMX]]
      Seed(a, ind) == AdPassSeed(F, fseed, junk, a, ind)
      Walk(a, el)  == AdEntry(F, ncol, a, el)
      a2    == FoldSeq(Seed, a1, Range0(Len(F.input_)))
      a3    == FoldSeq(Walk, a2, Range0(Len(F.alg)))
  IN  IF ~F.is_init THEN [a0 EXCEPT !.status = "assert", !.undefined = FALSE]
      ELSE IF fseed = <<>> /\ junk = Crash THEN [a0 EXCEPT !.status = "ub"]
      ELSE IF \E i \in DOMAIN fseed : fseed[i].cols # ncol
        THEN [a0 EXCEPT !.status = "consistency_error"]
      ELSE AdCollect(F, a3)

\* int ncol = alg[inputv_ind[iind]].mx.size1(): for iind beyond the declared
\* inputs the read of inputv_ind is undefined; oob is what the reads then
\* produce, a negative oob standing for the end of the process and any other
\* for the number they yield
jacCols(F, iind, oob) ==
  IF InRange(F.inputv_ind, iind) THEN size1(F.alg[F.inputv_ind[iind + 1] + 1].mx) ELSE oob

\* A variant that gives every zero seed as many columns as it has rows
jacSquareZeros(F, iind, oob, junk) ==
  IF ~F.is_init THEN [AdRunning EXCEPT !.fn = F, !.status = "assert"]
  ELSE IF ~InRange(F.inputv_ind, iind) /\ oob < 0
    THEN [AdRunning EXCEPT !.fn = F, !.status = "ub", !.undefined = TRUE]
  ELSE LET r == adFwd(F, [ind \in DOMAIN F.input_ |->
                            LET nrow == size1(F.alg[F.inputv_ind[ind] + 1].mx) IN
                              IF ind - 1 = iind THEN MX_eye(nrow) ELSE MX_zeros(nrow, nrow)],
                      junk)
       IN  [r EXCEPT !.undefined = @ \/ ~InRange(F.inputv_ind, iind)]

\* The seed list jac(iind) builds: lines 263-271
jacSeeds(F, iind, ncol) ==
  [ind \in DOMAIN F.input_ |->
     LET nrow == size1(F.alg[F.inputv_ind[ind] + 1].mx) IN
       IF ind - 1 = iind THEN MX_eye(ncol) ELSE MX_zeros(nrow, ncol)]

\* MXFunctionInternal::jac(iind)
jac(F, iind, oob, junk) ==
  IF ~F.is_init THEN [AdRunning EXCEPT !.fn = F, !.status = "assert"]
  ELSE IF ~InRange(F.inputv_ind, iind) /\ oob < 0
    THEN [AdRunning EXCEPT !.fn = F, !.status = "ub", !.undefined = TRUE]
  ELSE LET r == adFwd(F, jacSeeds(F, iind, jacCols(F, iind, oob)), junk)
       IN  [r EXCEPT !.undefined = @ \/ ~InRange(F.inputv_ind, iind)]

\* ---------------------------------------------------------------- actions
Opts == [nfdir : 0..MaxDir, nadir : 0..MaxDir]

RootLists(S) == SeqsUpTo(S, MaxRoots)

\* new MXFunctionInternal(iv, ov); o is the option dictionary's defaults
Construct(roots) ==
  /\ ~fn.exists
  /\ ret.call = "none"
  /\ \E r \in roots, o \in Opts :
       LET iv == r[1]
           ov == r[2]
           c  == CtorScan(iv, 0) IN
         /\ fn' = IF c.status = "ok" THEN MXFunctionInternal(iv, ov, o) ELSE NoFn
         /\ ret' = [NoRet EXCEPT !.call = "construct", !.status = c.status,
                                 !.arg = c.arg, !.inputv = iv]
  /\ UNCHANGED <<graph, temp, nevals, cl>>

\* setOption("number_of_fwd_dir", ..) / setOption("number_of_adj_dir", ..)
SetOption ==
  /\ fn.exists
  /\ \E o \in Opts :
       /\ o # fn.opt
       /\ fn' = [fn EXCEPT !.opt = o]
  /\ UNCHANGED <<graph, temp, ret, nevals, cl>>

CallInit ==
  /\ fn.exists
  /\ LET r == init(fn, temp) IN
       /\ fn' = r.fn
       /\ temp' = r.temp
  /\ ret' = Ret("init", "ok", fn)
  /\ UNCHANGED <<graph, nevals, cl>>

\* What the caller may put into the ports before evaluate(): a value per input,
\* a tangent seed per input and direction, an adjoint seed per output and direction
RECURSIVE SeqProduct(_)
SeqProduct(sets) ==
  IF sets = <<>> THEN { <<>> }
  ELSE { <<h>> \o t : h \in Head(sets), t \in SeqProduct(Tail(sets)) }

Seeds == 0..1

InputChoices(ports, Vs) ==
  SeqProduct([i \in DOMAIN ports |->
    { [ports[i] EXCEPT !.data = v, !.dataF = f] :
        v \in [1..Len(ports[i].data) -> Vs],
        f \in [1..Len(ports[i].dataF) -> [1..Len(ports[i].data) -> Seeds]] }])

OutputChoices(ports) ==
  SeqProduct([i \in DOMAIN ports |->
    { [ports[i] EXCEPT !.dataA = a] :
        a \in [1..Len(ports[i].dataA) -> [1..Len(ports[i].data) -> Seeds]] }])

\* How a call that ran into undefined behaviour may leave the instance: as it
\* was at that point, or with the output values replaced by whatever was read
UbOutcomes(F, Vs) ==
  { F } \cup
  { [F EXCEPT !.output_ = [i \in DOMAIN @ |-> [@[i] EXCEPT !.data = [k \in DOMAIN @ |-> g]]]] :
      g \in Vs }

\* setInput / setFwdSeed / setAdjSeed on every port, then evaluate(nf, na)
CallEvaluate(Vs, Nf, Na, maxev) ==
  /\ fn.exists
  /\ nevals < maxev
  /\ nevals' = nevals + 1
  /\ \E nf \in Nf, na \in Na,
        ins \in InputChoices(fn.input_, Vs), outs \in OutputChoices(fn.output_) :
       LET F0 == [fn EXCEPT !.input_ = ins, !.output_ = outs]
           r  == evaluate(F0, nf, na)
       IN  \E F1 \in (IF r.status = "ub" THEN UbOutcomes(r.fn, Vs) ELSE { r.fn }) :
             /\ fn' = F1
             /\ ret' = [Ret("evaluate", r.status, fn) EXCEPT
                          !.nf = nf, !.na = na, !.nfwd = r.nfwd, !.nadj = r.nadj,
                          !.lifted = r.lifted,
                          !.modified = (F1.alg # F0.alg \/ F1.output_ # F0.output_
                                          \/ F1.input_ # F0.input_)]
  /\ UNCHANGED <<graph, temp, cl>>

LiftFuns == 0..2

UserData == 0..1

CallSetLiftingFunction ==
  /\ fn.exists
  /\ \E cb \in LiftFuns, ud \in UserData :
       /\ <<cb, ud>> # <<fn.liftfun_, fn.liftfun_ud_>>
       /\ fn' = setLiftingFunction(fn, cb, ud)
  /\ UNCHANGED <<graph, temp, ret, nevals, cl>>

\* The seed lists a caller may hand to adFwd(): up to MaxSeeds matrices of one
\* row and 1..MaxCols columns; the tag tells two seeds of one shape apart
SeedLists == SeqsUpTo({ SeedMX(t, 1, c) : t \in 0..1, c \in 1..MaxCols }, MaxSeeds)

Junk == { Crash, NullMX, SeedMX(0, 1, 1) }

CallAdFwd ==
  /\ fn.exists
  /\ \E fseed \in SeedLists, junk \in Junk :
       LET r == adFwd(fn, fseed, junk) IN
         /\ fn' = r.fn
         /\ ret' = [Ret("adFwd", r.status, fn) EXCEPT
                      !.fseed = fseed, !.sens = r.sens, !.derwork = r.derwork,
                      !.undefined = r.undefined]
  /\ UNCHANGED <<graph, temp, nevals, cl>>

\* What the undefined reads of jac() may produce: the end of the process (-1) or
\* a column count; nothing is read out of range for the index of a declared input
OobReads == -1..MaxCols

\* jac(iind) for the index of a declared input or the first index beyond them
CallJac ==
  /\ fn.exists
  /\ \E iind \in 0..Len(fn.inputv), junk \in Junk :
     \E oob \in (IF InRange(fn.inputv_ind, iind) THEN { -1 } ELSE OobReads) :
       LET r == jac(fn, iind, oob, junk) IN
         /\ fn' = r.fn
         /\ ret' = [Ret("jac", r.status, fn) EXCEPT
                      !.arg = iind, !.sens = r.sens, !.derwork = r.derwork,
                      !.undefined = r.undefined]
  /\ UNCHANGED <<graph, temp, nevals, cl>>

\* fn.clone(), once
CallClone ==
  /\ fn.exists /\ ~cl.exists
  /\ LET r == clone(fn, temp) IN
       /\ cl' = r.fn
       /\ temp' = r.temp
  /\ ret' = Ret("clone", "ok", fn)
  /\ UNCHANGED <<graph, fn, nevals>>

\* The calls made on the clone
CloneInit ==
  /\ cl.exists
  /\ LET r == init(cl, temp) IN
       /\ cl' = r.fn
       /\ temp' = r.temp
  /\ ret' = Ret("clone.init", "ok", cl)
  /\ UNCHANGED <<graph, fn, nevals>>

CloneEvaluate(Vs, Nf, Na, maxev) ==
  /\ cl.exists
  /\ nevals < maxev
  /\ nevals' = nevals + 1
  /\ \E nf \in Nf, na \in Na,
        ins \in InputChoices(cl.input_, Vs), outs \in OutputChoices(cl.output_) :
       LET F0 == [cl EXCEPT !.input_ = ins, !.output_ = outs]
           r  == evaluate(F0, nf, na)
       IN  \E F1 \in (IF r.status = "ub" THEN UbOutcomes(r.fn, Vs) ELSE { r.fn }) :
             /\ cl' = F1
             /\ ret' = [Ret("clone.evaluate", r.status, cl) EXCEPT
                          !.nf = nf, !.na = na, !.nfwd = r.nfwd, !.nadj = r.nadj,
                          !.lifted = r.lifted,
                          !.modified = (F1.alg # F0.alg \/ F1.output_ # F0.output_
                                          \/ F1.input_ # F0.input_)]
  /\ UNCHANGED <<graph, temp, fn>>

\* setLiftingFunction(writer, 1) on the source, on the clone
RegisterWriter ==
  /\ fn.exists /\ fn.liftfun_ = 0
  /\ fn' = setLiftingFunction(fn, 2, 1)
  /\ UNCHANGED <<graph, temp, ret, nevals, cl>>

CloneRegisterWriter ==
  /\ cl.exists /\ cl.liftfun_ = 0
  /\ cl' = setLiftingFunction(cl, 2, 1)
  /\ UNCHANGED <<graph, temp, ret, nevals, fn>>

\* ------------------------------------------------ tape-structure specification
InitTape ==
  /\ graph \in AllGraphs
  /\ temp = [n \in 1..Len(graph) |-> 0]
  /\ fn = NoFn
  /\ ret = NoRet
  /\ nevals = 0
  /\ cl = NoFn

AllRoots == RootLists(0..MaxNodes) \X RootLists(1..MaxNodes)

ConstructAny == Construct(AllRoots)

NextTape == ConstructAny \/ CallInit

SpecTape == InitTape /\ [][NextTape]_vars

\* ------------------------------------------------- evaluation specification
\* The functions evaluated: a graph with the roots its function is built from.
\*   ScnMul     y = a*b
\*   ScnShared  y = x*(x*x), outputs y and x*x: x and x*x each have two parents
\*   ScnMixed   (x + <absent>) * 2 next to w + x with w a leaf that is no input
\*   ScnVec     y = x*x elementwise on two elements
\*   ScnDup     y = x + x with x declared as input twice and y as output twice
\*   ScnNoIn    2*2, a function without inputs
ScnMul ==
  [graph |-> << MX("sym", <<>>, 1, 0), MX("sym", <<>>, 1, 0), MX("mul", <<1, 2>>, 1, 0) >>,
   inputv |-> <<1, 2>>, outputv |-> <<3>>]

ScnShared ==
  [graph |-> << MX("sym", <<>>, 1, 0), MX("sq", <<1>>, 1, 0), MX("mul", <<1, 2>>, 1, 0) >>,
   inputv |-> <<1>>, outputv |-> <<3, 2>>]

ScnMixed ==
  [graph |-> << MX("sym", <<>>, 1, 0), MX("const", <<>>, 1, 2), MX("add", <<1, Null>>, 1, 0),
                MX("mul", <<3, 2>>, 1, 0), MX("sym", <<>>, 1, 0), MX("add", <<5, 1>>, 1, 0) >>,
   inputv |-> <<1>>, outputv |-> <<4, 6>>]

ScnVec ==
  [graph |-> << MX("sym", <<>>, 2, 0), MX("sq", <<1>>, 2, 0) >>,
   inputv |-> <<1>>, outputv |-> <<2>>]

ScnDup ==
  [graph |-> << MX("sym", <<>>, 1, 0), MX("add", <<1, 1>>, 1, 0) >>,
   inputv |-> <<1, 1>>, outputv |-> <<2, 2>>]

ScnNoIn ==
  [graph |-> << MX("const", <<>>, 1, 2), MX("sq", <<1>>, 1, 0) >>,
   inputv |-> <<>>, outputv |-> <<2>>]

Scenarios == { ScnMul, ScnShared, ScnMixed, ScnVec, ScnDup, ScnNoIn }

\* Two inputs of different sizes, for the symbolic differentiator
ScnSizes ==
  [graph |-> << MX("sym", <<>>, 2, 0), MX("sym", <<>>, 1, 0),
                MX("sq", <<1>>, 2, 0), MX("sq", <<2>>, 1, 0) >>,
   inputv |-> <<1, 2>>, outputv |-> <<3, 4>>]

ScenarioRoots(g) ==
  { <<sc.inputv, sc.outputv>> : sc \in { x \in Scenarios \cup { ScnSizes } : x.graph = g } }

InitOf(scns) ==
  /\ graph \in { sc.graph : sc \in scns }
  /\ temp = [n \in 1..Len(graph) |-> 0]
  /\ fn = NoFn
  /\ ret = NoRet
  /\ nevals = 0
  /\ cl = NoFn

ConstructScenario == Construct(ScenarioRoots(graph))

Vals == 1..MaxVal

\* Direction counts a caller may ask for: up to one more than can be configured
Dirs == 0..(MaxDir + 1)

Evaluate == CallEvaluate(Vals, Dirs, Dirs, MaxEvals)

Init == InitOf(Scenarios)

Next ==
  \/ ConstructScenario
  \/ CallInit
  \/ CallSetLiftingFunction
  \/ Evaluate

Spec == Init /\ [][Next]_vars

\* ---------------------------------------------- re-initialization specification
\* Option changes between init() calls, and an evaluate() after them
EvaluateProbe == CallEvaluate({1}, 0..MaxDir, 0..MaxDir, MaxSweeps)

NextReinit ==
  \/ ConstructScenario
  \/ SetOption
  \/ CallInit
  \/ EvaluateProbe

SpecReinit == Init /\ [][NextReinit]_vars

\* ------------------------------------------------------- sweep specifications
\* Repeated evaluate() calls on one tape, asking for directions that exist
EvaluateSweep == CallEvaluate(Vals, 0..MaxDir, 0..MaxDir, MaxSweeps)

InitSweep == InitOf({ ScnShared, ScnMixed, ScnDup })

NextSweep ==
  \/ ConstructScenario
  \/ CallInit
  \/ EvaluateSweep

SpecSweep == InitSweep /\ [][NextSweep]_vars

\* The product function y = a*b with one forward direction asked for
MulVals == 0..MaxMulVal

EvaluateMul == CallEvaluate(MulVals, {1}, {0}, MaxSweeps)

InitMul == InitOf({ ScnMul })

NextMul ==
  \/ ConstructScenario
  \/ CallInit
  \/ EvaluateMul

SpecMul == InitMul /\ [][NextMul]_vars

\* ------------------------------------------- symbolic differentiation specification
InitAd == InitOf(Scenarios \cup { ScnSizes })

NextAd ==
  \/ ConstructScenario
  \/ CallInit
  \/ CallAdFwd
  \/ CallJac

SpecAd == InitAd /\ [][NextAd]_vars

\* ------------------------------------------------------ lifting specification
\* Registrations, init() and repeated evaluate() calls on one instance
EvaluateLift == CallEvaluate({ 1 }, { 0, MaxDir + 1 }, 0..MaxDir, MaxSweeps)

InitLift == InitOf({ ScnShared, ScnMixed })

NextLift ==
  \/ ConstructScenario
  \/ CallInit
  \/ CallSetLiftingFunction
  \/ EvaluateLift

SpecLift == InitLift /\ [][NextLift]_vars

\* -------------------------------------------------------- clone specification
\* A source and its clone, each initialized, evaluated and given a callback
EvaluateSource == CallEvaluate({ MaxVal }, {0}, 0..MaxDir, MaxSweeps)

EvaluateClone == CloneEvaluate({ 1 }, {0}, 0..MaxDir, MaxSweeps)

InitClone == InitOf({ ScnShared })

NextClone ==
  \/ ConstructScenario
  \/ CallInit
  \/ RegisterWriter
  \/ EvaluateSource
  \/ CallClone
  \/ CloneInit
  \/ CloneRegisterWriter
  \/ EvaluateClone

SpecClone == InitClone /\ [][NextClone]_vars

\* ------------------------------------------------------------ properties
\* Slots of the tape, 0-based
Slots(F) == 0..(Len(F.alg) - 1)

\* The parents of slot s: the (entry, dependency position) pairs that refer to it
ParentsOf(F, s) ==
  { pi \in Slots(F) \X (0..1) :
      pi[2] < Len(F.alg[pi[1] + 1].ch) /\ F.alg[pi[1] + 1].ch[pi[2] + 1] = s }

SharedSlot(F, s) == \E p, q \in ParentsOf(F, s) : p[1] # q[1]

\* The nodes reachable from a set of nodes through dependencies
RECURSIVE Closure(_)
Closure(S) ==
  LET T == S \cup ({ dep(n, i) : <<n, i>> \in { ni \in S \X (0..1) : ni[2] < ndep(ni[1]) } }
                    \ { Null })
  IN  IF T = S THEN S ELSE Closure(T)

RootNodes(F) ==
  ({ F.inputv[i] : i \in DOMAIN F.inputv } \cup { F.outputv[i] : i \in DOMAIN F.outputv })
    \ { Null }

\* C1: after init(), every dependency slot of every tape entry is -1 (absent)
\* or the index of a strictly earlier entry: 0 <= ch[i] < e.
C1_TopologicalOrder ==
  fn.is_init =>
    \A e \in Slots(fn) : \A i \in DOMAIN fn.alg[e + 1].ch :
      LET c == fn.alg[e + 1].ch[i] IN c # -1 => (0 <= c /\ c < e)

\* C1 witness: an initialized tape with a slot shared by two parent entries and
\* an entry that has an absent dependency next to a present one.
C1_Witness ==
  /\ fn.is_init
  /\ \E s \in Slots(fn) : SharedSlot(fn, s)
  /\ \E e \in Slots(fn) : \E i, j \in DOMAIN fn.alg[e + 1].ch :
        fn.alg[e + 1].ch[i] = -1 /\ fn.alg[e + 1].ch[j] >= 0

\* C2: after init(), the tape holds exactly the nodes reachable from the
\* declared roots, each in exactly one slot.
C2_ReachableOnce ==
  fn.is_init =>
    LET R == Closure(RootNodes(fn)) IN
      /\ Len(fn.alg) = Cardinality(R)
      /\ \A n \in R : Cardinality({ s \in Slots(fn) : fn.alg[s + 1].mx = n }) = 1
      /\ \A s \in Slots(fn) : fn.alg[s + 1].mx \in R

\* C2 witness: an initialized tape in which a node declared as an input twice
\* is the dependency of two different entries.
C2_Witness ==
  /\ fn.is_init
  /\ \E s \in Slots(fn) : SharedSlot(fn, s)
  /\ \E i, j \in DOMAIN fn.inputv :
        i # j /\ fn.inputv[i] = fn.inputv[j] /\ SharedSlot(fn, fn.inputv_ind[i])

\* The offending argument numbers of an input list
BadInputs(iv) ==
  { i \in 0..(Len(iv) - 1) : iv[i + 1] = Null \/ ~isSymbolic(iv[i + 1]) }

\* C5: construction fails, leaving no instance and no ports, exactly when some
\* input is null or not symbolic; the error names the lowest offending argument
\* and that argument's kind of violation.  Otherwise it succeeds with one port
\* per declared input and output.
C5_ConstructionValidation ==
  ret.call = "construct" =>
    LET bad == BadInputs(ret.inputv) IN
      /\ (bad = {}) <=> (ret.status = "ok")
      /\ bad = {} =>
            /\ fn.exists /\ fn.inputv = ret.inputv
            /\ Len(fn.input_) = Len(fn.inputv) /\ Len(fn.output_) = Len(fn.outputv)
      /\ bad # {} =>
            /\ ~fn.exists /\ fn.input_ = <<>> /\ fn.output_ = <<>>
            /\ ret.arg = SetMin(bad)
            /\ ret.status = IF ret.inputv[SetMin(bad) + 1] = Null
                               THEN "null" ELSE "not_symbolic"

\* C5 witness: a construction rejected for a non-symbolic argument 0 although
\* argument 1 is null.
C5_Witness ==
  /\ ret.call = "construct" /\ ret.status = "not_symbolic" /\ ret.arg = 0
  /\ Len(ret.inputv) = 2 /\ ret.inputv[2] = Null

\* C3: evaluate() on an instance on which init() never completed is rejected as
\* a precondition violation: nothing is copied into the tape, no entry runs and
\* no output port is written.
C3_EvaluateRequiresInit ==
  (ret.call = "evaluate" /\ ~ret.was_init) =>
    ret.status = "precondition_error" /\ ret.nfwd = 0 /\ ret.nadj = 0 /\ ~ret.modified

\* C4: evaluate(nf, na) on an initialized instance either completes, having run
\* every entry in every requested sweep, or fails with no entry run and no tape
\* buffer or output port modified.
C4_AllOrNothing ==
  (ret.call = "evaluate" /\ ret.was_init) =>
    \/ /\ ret.status = "ok"
       /\ ret.nfwd = Len(fn.alg)
       /\ ret.nadj = IF ret.na > 0 THEN Len(fn.alg) ELSE 0
    \/ /\ ret.status # "ok"
       /\ ret.nfwd = 0 /\ ret.nadj = 0 /\ ~ret.modified

\* C6: for y = a*b, evaluate with one forward direction completes and writes
\* y = a*b to the output port and dy = b*da + a*db to its forward sensitivity.
C6_ProductRule ==
  (graph = ScnMul.graph /\ ret.call = "evaluate" /\ ret.was_init
     /\ ret.nf = 1 /\ fn.nfdir_ >= 1) =>
    LET a  == fn.input_[1].data[1]
        b  == fn.input_[2].data[1]
        da == fn.input_[1].dataF[1][1]
        db == fn.input_[2].dataF[1][1]
    IN  /\ ret.status = "ok"
        /\ fn.output_[1].data = << a * b >>
        /\ fn.output_[1].dataF[1] = << b * da + a * db >>

\* C6 witness: the second evaluate() of a product tape, with a = 3, b = 4 and
\* the seed (1, 0), has written y = 12 and dy = 4.
C6_Witness ==
  /\ graph = ScnMul.graph /\ ret.call = "evaluate" /\ ret.status = "ok" /\ nevals = 2
  /\ ret.nf = 1
  /\ fn.input_[1].data = <<3>> /\ fn.input_[2].data = <<4>>
  /\ fn.input_[1].dataF[1] = <<1>> /\ fn.input_[2].dataF[1] = <<0>>
  /\ fn.output_[1].data = <<12>> /\ fn.output_[1].dataF[1] = <<4>>

RECURSIVE SumOver(_, _)
SumOver(f(_), S) ==
  IF S = {} THEN 0
  ELSE LET x == CHOOSE y \in S : TRUE IN f(x) + SumOver(f, S \ { x })

\* The adjoint seed copied into slot s for direction d (counted from 1): that of
\* the last output port mapped to s, zero if s is not an output slot
SeedOf(F, s, d) ==
  LET ports == { ind \in DOMAIN F.outputv_ind : F.outputv_ind[ind] = s } IN
    IF ports = {} THEN Zeros(Len(F.alg[s + 1].data))
    ELSE F.output_[SetMax(ports)].dataA[d]

\* What parent entry pi[1] adds, through its dependency position pi[2], to
\* element k of the sensitivity of the slot it depends on
Contribution(F, pi, d, k) ==
  LET el == F.alg[pi[1] + 1] IN
    Partial(graph[el.mx].op, Operands(F.alg, el), pi[2] + 1, Len(el.data))[k]
      * el.dataA[d][k]

\* C7: at the end of an adjoint pass every slot's sensitivity, in every
\* requested direction, is the seed copied into it (zero if it is not an output
\* slot) plus the sum of the contributions of all of its parents.
C7_AdjointAccumulation ==
  (ret.call = "evaluate" /\ ret.status = "ok" /\ ret.na >= 1) =>
    /\ ret.nadj = Len(fn.alg)
    /\ \A s \in Slots(fn) : \A d \in 1..ret.na :
         \A k \in 1..Len(fn.alg[s + 1].data) :
           LET Term(pi) == Contribution(fn, pi, d, k) IN
             fn.alg[s + 1].dataA[d][k] =
               SeedOf(fn, s, d)[k] + SumOver(Term, ParentsOf(fn, s))

\* C7 witness: the second adjoint pass over one tape, in which a slot with two
\* parent entries receives a nonzero contribution from each of them.
C7_Witness ==
  /\ ret.call = "evaluate" /\ ret.status = "ok" /\ ret.na = 1 /\ nevals = 2
  /\ \E s \in Slots(fn) :
       /\ SharedSlot(fn, s)
       /\ \A pi \in ParentsOf(fn, s) : Contribution(fn, pi, 1, 1) # 0

\* The views of entry e of F are exactly the addresses of the current buffers
\* of the entries at its dependency slots and of its own buffers
CurrentViews(F, e) ==
  LET el == F.alg[e + 1]
      Cur(slot, kind, dir) == View(slot, kind, dir, 1) IN
    /\ Len(el.input) = Len(el.ch)
    /\ Len(el.fwdSeed) = Len(el.ch) /\ Len(el.adjSens) = Len(el.ch)
    /\ \A i \in DOMAIN el.ch :
         IF el.ch[i] >= 0
           THEN /\ el.input[i] = Cur(el.ch[i], "data", 0)
                /\ el.fwdSeed[i] = [d \in 1..F.nfdir_ |-> Cur(el.ch[i], "F", d - 1)]
                /\ el.adjSens[i] = [d \in 1..F.nadir_ |-> Cur(el.ch[i], "A", d - 1)]
                /\ Live(F.alg, el.input[i])
                /\ \A d \in 1..F.nfdir_ : Live(F.alg, el.fwdSeed[i][d])
                /\ \A d \in 1..F.nadir_ : Live(F.alg, el.adjSens[i][d])
           ELSE /\ el.input[i] = NullPtr
                /\ el.fwdSeed[i] = [d \in 1..F.nfdir_ |-> NullPtr]
                /\ el.adjSens[i] = [d \in 1..F.nadir_ |-> NullPtr]
    /\ el.output = Cur(e, "data", 0)
    /\ el.fwdSens = [d \in 1..F.nfdir_ |-> Cur(e, "F", d - 1)]
    /\ el.adjSeed = [d \in 1..F.nadir_ |-> Cur(e, "A", d - 1)]

\* C8: after any sequence of init() calls with option changes in between, every
\* entry owns nfdir tangent and nadir sensitivity buffers of its node's size,
\* every view refers to the current tape's buffer at slot ch[i] (or to itself)
\* and none to a buffer of an earlier tape; an evaluate() of an initialized
\* instance that asks for directions it has never goes through a stale view.
C8_BuffersAndViews ==
  /\ fn.is_init =>
       \A e \in Slots(fn) :
            LET el == fn.alg[e + 1]
                nz == numel(el.mx) IN
              /\ el.bufgen = 1 /\ Len(el.data) = nz
              /\ Len(el.dataF) = fn.nfdir_ /\ Len(el.dataA) = fn.nadir_
              /\ \A d \in 1..fn.nfdir_ : Len(el.dataF[d]) = nz
              /\ \A d \in 1..fn.nadir_ : Len(el.dataA[d]) = nz
              /\ CurrentViews(fn, e)
  /\ (ret.call = "evaluate" /\ ret.was_init
        /\ ret.nf <= fn.nfdir_ /\ ret.na <= fn.nadir_) => ret.status = "ok"

\* C8 witness: an init() of a tape that was built and evaluated before, with
\* more forward and fewer adjoint directions than the previous init() used, on
\* a graph with a present and an absent dependency.
C8_Witness ==
  /\ ret.call = "init" /\ ret.was_init /\ nevals >= 1
  /\ ret.old_nfdir < fn.nfdir_ /\ ret.old_nadir > fn.nadir_
  /\ fn.nfdir_ = fn.opt.nfdir /\ fn.nadir_ = fn.opt.nadir
  /\ \E e \in Slots(fn) : \E i, j \in DOMAIN fn.alg[e + 1].ch :
        fn.alg[e + 1].ch[i] = -1 /\ fn.alg[e + 1].ch[j] >= 0

\* The instance a step hands to evaluate(), had no callback been registered:
\* the pre-state instance with the ports as the caller set them
WithoutCallback(F, F1) ==
  [F EXCEPT
     !.liftfun_ = 0,
     !.input_   = [i \in DOMAIN @ |-> [@[i] EXCEPT !.data = F1.input_[i].data,
                                                   !.dataF = F1.input_[i].dataF]],
     !.output_  = [i \in DOMAIN @ |-> [@[i] EXCEPT !.dataA = F1.output_[i].dataA]]]

\* C9: an evaluate() of an initialized instance with a callback registered runs
\* the same entries and leaves the same tape values, outputs, tangents and
\* sensitivities as the same call with no callback registered.
C9_LiftingIsSideChannel ==
  [][ (nevals' = nevals + 1 /\ fn.is_init /\ fn.liftfun_ # 0) =>
        LET r == evaluate(WithoutCallback(fn, fn'), ret'.nf, ret'.na) IN
          /\ r.status = ret'.status
          /\ r.nfwd = ret'.nfwd /\ r.nadj = ret'.nadj
          /\ r.fn.alg = fn'.alg
          /\ r.fn.output_ = fn'.output_
          /\ r.fn.input_ = fn'.input_ ]_vars

\* C10: adFwd(fseed) on an initialized instance makes no undefined access, also
\* for an empty seed list or one shorter than the declared inputs, and fails
\* with a consistency error, with no memo seeded and no expression built,
\* whenever the seeds do not all share one column count.
C10_SeedConsistency ==
  (ret.call = "adFwd" /\ ret.was_init) =>
    /\ ~ret.undefined /\ ret.status # "ub"
    /\ (\E i, j \in DOMAIN ret.fseed : ret.fseed[i].cols # ret.fseed[j].cols) =>
         ret.status = "consistency_error" /\ ret.derwork = <<>> /\ ret.sens = <<>>

\* C11: for every initialized instance and every column-consistent list of
\* seeds, one per declared input, adFwd completes and returns one non-null
\* derivative expression per declared output, entry k being the memo of slot
\* outputv_ind[k].
C11_AdFwdResult ==
  (ret.call = "adFwd" /\ ret.was_init /\ Len(ret.fseed) = Len(fn.inputv)
     /\ \A i, j \in DOMAIN ret.fseed : ret.fseed[i].cols = ret.fseed[j].cols) =>
    /\ ret.status = "ok" /\ ~ret.undefined
    /\ Len(ret.sens) = Len(fn.outputv)
    /\ \A k \in DOMAIN ret.sens :
         ret.sens[k] # NullMX /\ ret.sens[k] = ret.derwork[fn.outputv_ind[k] + 1]

\* C12: jac(i) and adFwd(fseed) leave the instance, the graph and the nodes'
\* transient order fields as they were, whether the call succeeds or fails.
C12_DifferentiationFrame ==
  [][ ret'.call \in { "adFwd", "jac" } =>
        fn' = fn /\ graph' = graph /\ temp' = temp /\ cl' = cl ]_vars

\* C12 witness: an adFwd call on a tape with a two-dependency entry has built
\* a derivative expression for every slot and returned the output's.
C12_Witness ==
  /\ ret.call = "adFwd" /\ ret.status = "ok" /\ fn.is_init
  /\ Len(ret.derwork) = Len(fn.alg) /\ \A e \in DOMAIN ret.derwork : ret.derwork[e] # NullMX
  /\ \E k \in DOMAIN ret.sens : ret.sens[k].kind = "adFwd" /\ Len(ret.sens[k].args) = 2

\* The number of rows of declared input j (counted from 1)
InputRows(F, j) == graph[F.inputv[j]].nz

\* C15: jac(i), for the index i of a declared input, returns what adFwd returns
\* for the seed list with the identity of size rows(input i) at i and zeros of
\* rows(input j) rows and rows(input i) columns at every other j; it never
\* fails the column-consistency check.
C15_JacIsAdFwd ==
  (ret.call = "jac" /\ ret.was_init /\ ret.arg < Len(fn.inputv)) =>
    LET i == ret.arg + 1
        S == [j \in DOMAIN fn.inputv |->
                IF j = i THEN MX_eye(InputRows(fn, i))
                ELSE MX_zeros(InputRows(fn, j), InputRows(fn, i))]
        r == adFwd(fn, S, Crash)
    IN  /\ ret.status = r.status /\ ret.sens = r.sens /\ ret.derwork = r.derwork
        /\ ret.status # "consistency_error" /\ ~ret.undefined

\* C15 witness: jac(1) of a function whose two inputs have different sizes has
\* returned the derivative expressions of both outputs.
C15_Witness ==
  /\ ret.call = "jac" /\ ret.status = "ok" /\ ret.arg = 1
  /\ Len(fn.inputv) = 2 /\ InputRows(fn, 1) # InputRows(fn, 2)
  /\ Len(ret.sens) = 2 /\ ret.sens[2].kind = "adFwd"

\* Every tape buffer and every port buffer of F is zero
AllZero(F) ==
  LET Z(b) == \A k \in DOMAIN b : b[k] = 0
      ZIO(v) == Z(v.data) /\ (\A d \in DOMAIN v.dataF : Z(v.dataF[d]))
                  /\ (\A d \in DOMAIN v.dataA : Z(v.dataA[d]))
  IN  /\ \A e \in DOMAIN F.alg : ZIO(F.alg[e])
      /\ \A i \in DOMAIN F.input_ : ZIO(F.input_[i])
      /\ \A i \in DOMAIN F.output_ : ZIO(F.output_[i])

\* C14: init() called directly after an init(), with the options unchanged,
\* leaves the instance and the nodes exactly as the first call left them: same
\* tape, indices, buffer counts and sizes, all buffers zero, all views current.
C14_InitIdempotent ==
  [][ (ret.call = "init" /\ ret'.call = "init" /\ fn'.opt = fn.opt
         /\ fn.opt.nfdir = fn.nfdir_ /\ fn.opt.nadir = fn.nadir_) =>
        /\ fn' = fn /\ temp' = temp
        /\ AllZero(fn')
        /\ \A e \in Slots(fn') : CurrentViews(fn', e) ]_vars

\* C14 witness: a second init() in succession, with one forward and one adjoint
\* direction configured both times, of a tape of at least three entries.
C14_Witness ==
  /\ ret.call = "init" /\ ret.was_init /\ nevals = 0
  /\ ret.old_nfdir = 1 /\ ret.old_nadir = 1 /\ fn.nfdir_ = 1 /\ fn.nadir_ = 1
  /\ Len(fn.alg) >= 3

\* Two tapes hold the same nodes in the same order with the same dependency
\* and root indices and the same primal sizes
SameStructure(F, G) ==
  /\ Len(F.alg) = Len(G.alg)
  /\ F.inputv_ind = G.inputv_ind /\ F.outputv_ind = G.outputv_ind
  /\ \A e \in DOMAIN F.alg :
       /\ F.alg[e].mx = G.alg[e].mx /\ F.alg[e].ch = G.alg[e].ch
       /\ Len(F.alg[e].data) = Len(G.alg[e].data)

\* C13: clone() leaves the source alone and returns an instance over the same
\* roots that is initialized iff the source is, with a tape of the same
\* structure whose views all address its own buffers; afterwards no init() or
\* evaluate() on one instance changes anything of the other.
C13_CloneIndependent ==
  [][ /\ (~cl.exists /\ cl'.exists) =>
           /\ fn' = fn
           /\ cl'.inputv = fn.inputv /\ cl'.outputv = fn.outputv
           /\ cl'.is_init = fn.is_init
           /\ fn.is_init => SameStructure(fn, cl') /\ AllZero(cl')
      /\ cl'.is_init =>
           \A e \in Slots(cl') : cl'.alg[e + 1].bufgen = 1 /\ CurrentViews(cl', e)
      /\ fn'.is_init =>
           \A e \in Slots(fn') : fn'.alg[e + 1].bufgen = 1 /\ CurrentViews(fn', e)
      /\ (ret'.call \in { "init", "evaluate" } /\ ret' # ret) => cl' = cl
      /\ (ret'.call \in { "clone.init", "clone.evaluate" } /\ ret' # ret) => fn' = fn
      /\ (ret'.call = "clone.evaluate" /\ ret'.was_init /\ ret'.na <= cl.nadir_) =>
           ret'.status = "ok" ]_vars

\* C13 witness: source and clone both initialized and evaluated, the source
\* before the clone was made, their tapes holding different input values.
C13_Witness ==
  /\ ret.call = "clone.evaluate" /\ ret.status = "ok" /\ nevals = 2
  /\ fn.is_init /\ cl.is_init
  /\ fn.alg[fn.inputv_ind[1] + 1].data = << MaxVal >>
  /\ cl.alg[cl.inputv_ind[1] + 1].data = << 1 >>

\* C20: a newly constructed instance and a newly made clone have no callback
\* and no user data; the clone's registration changes only by a
\* setLiftingFunction on the clone, and while it has none an evaluate() on the
\* clone invokes no callback, whatever is registered on the source.
C20_CloneHasNoCallback ==
  [][ /\ (~fn.exists /\ fn'.exists) => fn'.liftfun_ = 0 /\ fn'.liftfun_ud_ = 0
      /\ (~cl.exists /\ cl'.exists) => cl'.liftfun_ = 0 /\ cl'.liftfun_ud_ = 0
      /\ (cl.exists /\ (ret' # ret \/ fn' # fn)) =>
           cl'.liftfun_ = cl.liftfun_ /\ cl'.liftfun_ud_ = cl.liftfun_ud_
      /\ (nevals' # nevals /\ ret'.call = "clone.evaluate") =>
           /\ cl.liftfun_ = 0 => ret'.lifted = <<>>
           /\ \A k \in DOMAIN ret'.lifted : ret'.lifted[k][3] = cl.liftfun_ud_ ]_vars

\* C20 witness: an evaluate() of an initialized clone that ran two nonlinear
\* entries and invoked nothing, while its source has a callback registered.
C20_Witness ==
  /\ ret.call = "clone.evaluate" /\ ret.status = "ok" /\ ret.lifted = <<>>
  /\ fn.liftfun_ # 0 /\ cl.liftfun_ = 0
  /\ Cardinality({ e \in Slots(cl) : isNonLinear(cl.alg[e + 1].mx) }) = 2

\* The callback invocations an evaluate() that ran the first `ran` entries of
\* tape F owes: one per nonlinear entry, ascending, with the registered user
\* data and the value the entry has just been given by its rule
OwedInvocations(F, ran) ==
  LET nl == SelectSeq(Range0(ran), LAMBDA e : isNonLinear(F.alg[e + 1].mx)) IN
    [k \in DOMAIN nl |->
       LET el == F.alg[nl[k] + 1] IN
         << nl[k], numel(el.mx), F.liftfun_ud_,
            Primal(graph[el.mx].op, graph[el.mx].val, Operands(F.alg, el), numel(el.mx)) >>]

\* C16: an evaluate() invokes the callback of the most recent registration once
\* per nonlinear entry it runs, in ascending order, each time right after that
\* entry's evaluation and with the registered user data, and invokes nothing
\* if the registration is null; init() and evaluate() keep the registration.
C16_LiftingInvocations ==
  [][ /\ (nevals' # nevals /\ ret'.call = "evaluate" /\ fn.is_init) =>
           ret'.lifted = IF fn.liftfun_ = 0 THEN <<>>
                         ELSE OwedInvocations(fn', ret'.nfwd)
      /\ (fn.exists /\ ret' # ret) =>
           fn'.liftfun_ = fn.liftfun_ /\ fn'.liftfun_ud_ = fn.liftfun_ud_ ]_vars

\* C16 witness: the second evaluate() after a registration, with an init() in
\* between or before, ran an adjoint sweep and invoked the callback for two
\* nonlinear entries, the second computed from the first.
C16_Witness ==
  /\ ret.call = "evaluate" /\ ret.status = "ok" /\ nevals = 2 /\ ret.na = 1
  /\ fn.liftfun_ = 1 /\ fn.liftfun_ud_ = 1
  /\ Len(ret.lifted) = 2 /\ ret.lifted[1][1] < ret.lifted[2][1]
  /\ ret.lifted[2][4] # Zeros(Len(ret.lifted[2][4]))

\* The instance G holding the ports as the caller of F's last evaluate() set
\* them (evaluate() leaves input values, tangent seeds and adjoint seeds alone)
WithCallerPorts(G, F) ==
  [G EXCEPT
     !.input_  = [i \in DOMAIN @ |-> [@[i] EXCEPT !.data = F.input_[i].data,
                                                  !.dataF = F.input_[i].dataF]],
     !.output_ = [i \in DOMAIN @ |-> [@[i] EXCEPT !.dataA = F.output_[i].dataA]]]

\* The instance F as it was at the start of its last evaluate() had its tape
\* just been built
FreshlyInitialized(F) == WithCallerPorts(init(F, temp).fn, F)

\* C17: every evaluate(nf, na) of an initialized instance, whatever evaluate()
\* calls came before it, ends as the same call on a freshly initialized tape
\* does; if it completes it has run every entry once in the forward sweep and
\* its outputs, forward sensitivities and adjoint sensitivities are those of
\* the fresh tape.
C17_HistoryIndependent ==
  (ret.call = "evaluate" /\ ret.was_init) =>
    LET r == evaluate(FreshlyInitialized(fn), ret.nf, ret.na) IN
      /\ ret.status = r.status
      /\ ret.nfwd = r.nfwd /\ ret.nadj = r.nadj
      /\ ret.status = "ok" =>
           /\ ret.nfwd = Len(fn.alg)
           /\ \A i \in DOMAIN fn.output_ :
                /\ fn.output_[i].data = r.fn.output_[i].data
                /\ \A d \in 1..ret.nf : fn.output_[i].dataF[d] = r.fn.output_[i].dataF[d]
           /\ \A i \in DOMAIN fn.input_ : \A d \in 1..ret.na :
                fn.input_[i].dataA[d] = r.fn.input_[i].dataA[d]

\* C17 witness: a second evaluate() that asked for no directions completed on a
\* tape that still holds nonzero tangents and sensitivities of the first.
C17_Witness ==
  /\ ret.call = "evaluate" /\ ret.status = "ok" /\ nevals = 2
  /\ ret.nf = 0 /\ ret.na = 0
  /\ \E e \in Slots(fn) :
       /\ fn.alg[e + 1].dataF # <<>> /\ fn.alg[e + 1].dataF[1] # Zeros(Len(fn.alg[e + 1].data))
       /\ fn.alg[e + 1].dataA # <<>> /\ fn.alg[e + 1].dataA[1] # Zeros(Len(fn.alg[e + 1].data))

\* C18: in every evaluate(nf, na) of an initialized instance that completes,
\* when the forward sweep starts the slot of every input port holds that port's
\* value and, for every direction d < nf, its tangent seed; and when the reverse
\* sweep starts the sensitivity buffer d < na of the slot of every output port
\* holds that port's adjoint seed. Two declared ports that are the same node
\* included.
C18_SeedsPresent ==
  [][ (nevals' # nevals /\ ret'.call = "evaluate" /\ fn.is_init /\ ret'.status = "ok") =>
        LET F0 == WithCallerPorts(fn, fn')
            s  == PassInputsAndFwdSeeds(Running(F0), ret'.nf)
            a  == ClearAndPassAdjSeeds(ForwardPass(Running(F0), ret'.nf), ret'.na)
        IN  /\ \A ind \in DOMAIN F0.input_ :
                 LET el == s.fn.alg[F0.inputv_ind[ind] + 1] IN
                   /\ el.data = F0.input_[ind].data
                   /\ \A d \in 1..ret'.nf : el.dataF[d] = F0.input_[ind].dataF[d]
            /\ \A p \in DOMAIN F0.output_ : \A d \in 1..ret'.na :
                 a.fn.alg[F0.outputv_ind[p] + 1].dataA[d] = F0.output_[p].dataA[d]
    ]_vars

\* The temp fields as they are before any init() has run
NeutralTemp == [n \in DOMAIN graph |-> 0]

\* C19: between calls every node's temp field is 0, and the tape of every
\* initialized instance, of whichever init() ran after another init() over the
\* same nodes included, has the order and the dependency and port indices that
\* init() computes on nodes that no init() has touched.
C19_TempNeutral ==
  /\ temp = NeutralTemp
  /\ fn.is_init => SameStructure(fn, init(fn, NeutralTemp).fn)
  /\ cl.is_init => SameStructure(cl, init(cl, NeutralTemp).fn)

\* C19 witness: the clone's init() has returned after the source's init() over
\* the same three nodes, whose positions 1 and 2 were written into temp by both.
C19_Witness ==
  /\ ret.call = "clone.init"
  /\ fn.is_init /\ cl.is_init
  /\ Len(fn.alg) = 3 /\ Len(cl.alg) = 3
  /\ \E e \in DOMAIN cl.alg : \E i \in DOMAIN cl.alg[e].ch : cl.alg[e].ch[i] > 0

====
